---- MODULE Spec2Model ----
(***************************************************************************)
(* The toolchain of the 8-bit machine: the one-pass assembler of           *)
(* assembler.cpp (label table, waiting labels, address counter, program    *)
(* buffer) and the fetch-decode-execute loop of vm.cpp.                    *)
(*                                                                         *)
(* Byte offsets are 0-based as in the C++ source; At(s, i) reads the byte  *)
(* at offset i of the sequence s.                                          *)
(***************************************************************************)
EXTENDS Integers, Sequences, FiniteSets, TLC

VARIABLES
    program,         \* assembler: std::vector<uint8_t> program
    address,         \* assembler: uint16_t address of main
    labels,          \* assembler: std::map labels (name -> address)
    waiting_labels,  \* assembler: std::map waiting_labels (name -> offset)
    phase,           \* assembler: position of main ("reading", "done", "crashed")
    lines,           \* assembler: the input lines consumed so far, each with the
                     \*            size of program when the line was read
    rom,             \* vm: the bytes load_program copied to the start of rom
    ram,             \* vm: the cells of ram that were written (all others are 0)
    registers,       \* vm: std::array<uint8_t, 4> registers (A, B, C, F)
    PC,              \* vm: uint16_t PC
    vmState,         \* vm: position of run ("idle", "running", and how the loop ended)
    last             \* vm: the state the last executed step started from

asmVars == <<program, address, labels, waiting_labels, phase, lines>>
vmVars == <<rom, ram, registers, PC, vmState, last>>
vars == <<program, address, labels, waiting_labels, phase, lines,
          rom, ram, registers, PC, vmState, last>>

(***************************************************************************)
(* Bounds of the model.                                                    *)
(***************************************************************************)
MaxLines == 4

(***************************************************************************)
(* Fixed-width helpers.                                                    *)
(***************************************************************************)
Byte == 0..255

U8(n) == n % 256

U16(n) == n % 65536

HighByte(n) == U8(n \div 256)

LowByte(n) == U8(n)

At(s, i) == s[i + 1]

(***************************************************************************)
(* assembler.cpp: the opcode tables.                                       *)
(***************************************************************************)
ld_registers(c) == CASE c = "A" -> 2 [] c = "B" -> 5 [] c = "C" -> 8

ld_values(c) == CASE c = "A" -> 1 [] c = "B" -> 4 [] c = "C" -> 7

st_addresses(c) == CASE c = "A" -> 3 [] c = "B" -> 6 [] c = "C" -> 9

register_codes(c) == CASE c = "A" -> 0 [] c = "B" -> 1 [] c = "C" -> 2

bitwise_operations(m) ==
    CASE m = "AND" -> 15 [] m = "OR" -> 16 [] m = "XOR" -> 17 [] m = "NOT" -> 18

jump_cases(c) == CASE c = "Z" -> 20 [] c = "NZ" -> 21 [] c = "C" -> 22 [] c = "NC" -> 23

\* The enumerator Instruction::EMPTY_OPERAND.
EMPTY_OPERAND == -1

\* The value get_label_address returns for a label it does not know:
\* -1 converted to uint16_t.
UnknownLabelAddress == 65535

(***************************************************************************)
(* Tokens of a source line.  k is the shape of the token as written:       *)
(*   "reg"   a register name (s)                                           *)
(*   "dec"   a decimal literal (n)                                         *)
(*   "hex"   a literal written 0x.. (n), "HEX" one written 0X.. (n)        *)
(*   "addr"  a $-prefixed hexadecimal address (n)                          *)
(*   "cond"  a jump condition (s), "label" a label name (s)                *)
(***************************************************************************)
Tok(k, n, s) == [k |-> k, n |-> n, s |-> s]

NoTok == Tok("none", 0, "")

RegTok(c) == Tok("reg", 0, c)

DecTok(n) == Tok("dec", n, "")

HexTok(n) == Tok("hex", n, "")

HexUpperTok(n) == Tok("HEX", n, "")

AddrTok(n) == Tok("addr", n, "")

LabelTok(l) == Tok("label", 0, l)

CondTok(c) == Tok("cond", 0, c)

\* What follows the label token on the line of a label declaration; parse_line
\* returns at the label token and never reads it.
RestTok(s) == Tok("rest", 0, s)

\* A source line: the mnemonic and up to two operand tokens.
Line(mn, t1, t2) == [mn |-> mn, t1 |-> t1, t2 |-> t2]

is_register(tok) == tok.k = "reg"

is_address(tok) == tok.k = "addr"

is_jump_case(tok) == tok.k = "cond"

\* is_hex looks for "0X": upper is TRUE when is_register has already
\* upper-cased the token in place.
is_hex(tok, upper) == tok.k = "HEX" \/ (tok.k = "hex" /\ upper)

\* get_value: a hexadecimal token is extracted into a uint8_t, which reads
\* the single character '0' (48); any other token goes through std::stoi,
\* which stops at the 'x' of a lower-case 0x literal, and is narrowed to 8 bits.
get_value(tok, upper) ==
    IF is_hex(tok, upper) THEN 48
    ELSE IF tok.k = "hex" THEN 0
    ELSE U8(tok.n)

\* class Instruction: the operands are uint8_t members initialised from
\* EMPTY_OPERAND, so an operand that was never assigned holds 255.
Instr(op, o1, o2) == [opcode |-> op, operand1 |-> U8(o1), operand2 |-> U8(o2)]

\* token.back() of a load or store mnemonic.
Back(mn) ==
    CASE mn \in {"LDA", "STA"} -> "A"
      [] mn \in {"LDB", "STB"} -> "B"
      [] mn \in {"LDC", "STC"} -> "C"

\* std::map::insert: an existing key keeps its value.
MapInsert(m, k, v) == IF k \in DOMAIN m THEN m ELSE m @@ (k :> v)

EmptyMap == [k \in {} |-> 0]

(***************************************************************************)
(* parse_line, one operator per branch.  Each returns the instruction and  *)
(* the address counter on reaching the label finish.                       *)
(***************************************************************************)
Parsed(ins, a) == [instruction |-> ins, address |-> a]

ParseLD(ln, addr) ==
    LET load_to == Back(ln.mn)
        a1 == addr + 1
    IN IF is_register(ln.t1)
       THEN Parsed(Instr(ld_registers(load_to), register_codes(ln.t1.s), EMPTY_OPERAND),
                   a1 + 1)
       ELSE IF is_address(ln.t1) /\ load_to = "A"
       THEN Parsed(Instr(10, HighByte(U16(ln.t1.n)), LowByte(U16(ln.t1.n))), a1 + 1)
       ELSE Parsed(Instr(ld_values(load_to), get_value(ln.t1, TRUE), EMPTY_OPERAND),
                   a1 + 1)

ParseST(ln, addr) ==
    Parsed(Instr(st_addresses(Back(ln.mn)), HighByte(U16(ln.t1.n)), LowByte(U16(ln.t1.n))),
           addr + 2)

\* ADD and SUB: the register-register case has no goto and runs through the
\* later tests, none of which matches a register token, to finish.
ParseArith(ln, addr) ==
    LET target_register == register_codes(ln.t1.s)
    IN IF is_register(ln.t2)
       THEN Parsed(Instr(IF ln.mn = "ADD" THEN 11 ELSE 12,
                         target_register, register_codes(ln.t2.s)), addr + 2)
       ELSE Parsed(Instr(IF ln.mn = "ADD" THEN 13 ELSE 14,
                         target_register, get_value(ln.t2, TRUE)), addr + 2)

ParseBitwise(ln, addr) ==
    LET target_register == register_codes(ln.t1.s)
    IN IF ln.mn = "NOT"
       THEN Parsed(Instr(bitwise_operations(ln.mn), target_register, EMPTY_OPERAND),
                   addr + 1)
       ELSE Parsed(Instr(bitwise_operations(ln.mn), target_register,
                         register_codes(ln.t2.s)), addr + 2)

ParseCP(ln, addr) ==
    Parsed(Instr(24, get_value(ln.t1, FALSE), EMPTY_OPERAND), addr + 2)

ParseNOP(ln, addr) == Parsed(Instr(0, EMPTY_OPERAND, EMPTY_OPERAND), addr)

\* get_label_address: the address of a known label; otherwise the label is
\* entered in waiting_labels with the address counter of the caller.
get_label_address(addr, label, labs, waiting) ==
    IF label \in DOMAIN labs
    THEN [value |-> labs[label], waiting |-> waiting]
    ELSE [value |-> UnknownLabelAddress, waiting |-> MapInsert(waiting, label, addr)]

\* The address counter handed to get_label_address by a JMP line.
JumpLookupAddress(ln, addr) == IF is_jump_case(ln.t1) THEN addr + 2 ELSE addr + 1

JumpLabel(ln) == IF is_jump_case(ln.t1) THEN ln.t2.s ELSE ln.t1.s

ParseJMP(ln, addr, labs, waiting) ==
    LET jump_address ==
            get_label_address(JumpLookupAddress(ln, addr), JumpLabel(ln), labs, waiting).value
    IN IF is_jump_case(ln.t1)
       THEN Parsed(Instr(jump_cases(ln.t1.s), HighByte(jump_address), LowByte(jump_address)),
                   addr + 2)
       ELSE Parsed(Instr(19, HighByte(jump_address), LowByte(jump_address)), addr + 2)

\* A label that always takes the next address.
LabelAddressNext(addr) == addr + 1

\* A label line: the address the label is bound to.
LabelAddress(addr) == addr + (IF addr = 0 THEN 0 ELSE 1)

\* check_waiting_labels: the two bytes it writes, as <<offset, byte>> pairs
\* (none when the label is not waiting).
PatchWrites(waiting, label, current_address) ==
    IF label \in DOMAIN waiting
    THEN << <<waiting[label] - 1, HighByte(current_address)>>,
            <<waiting[label], LowByte(current_address)>> >>
    ELSE << >>

\* A write through program[i]: inside the vector it stores the byte.
Poke(prog, w) == IF w[1] < Len(prog) THEN [prog EXCEPT ![w[1] + 1] = w[2]] ELSE prog

RECURSIVE PokeAll(_, _)
PokeAll(prog, ws) == IF ws = << >> THEN prog ELSE PokeAll(Poke(prog, Head(ws)), Tail(ws))

\* A write of check_waiting_labels that indexes past the end of program.
PatchOutOfRange(prog, ws) == \E i \in 1..Len(ws) : ws[i][1] >= Len(prog)

\* main: the bytes pushed for one instruction.  The uint8_t operand is
\* promoted to int for the comparison with the enumerator.
Emit(prog, ins) ==
    LET p1 == Append(prog, ins.opcode)
        p2 == IF ins.operand1 /= EMPTY_OPERAND THEN Append(p1, ins.operand1) ELSE p1
    IN IF ins.operand2 /= EMPTY_OPERAND THEN Append(p2, ins.operand2) ELSE p2

(***************************************************************************)
(* The source lines the assembler is run on.                               *)
(***************************************************************************)
LabelNames == {"L", "M"}

LdLines ==
    { Line("LDA", DecTok(5), NoTok), Line("LDA", DecTok(1), NoTok),
      Line("LDC", HexTok(5), NoTok) }

StLines == { Line("STA", AddrTok(0), NoTok) }

ArithLines ==
    { Line("ADD", RegTok("A"), DecTok(3)), Line("SUB", RegTok("B"), RegTok("A")) }

BitwiseLines ==
    { Line("NOT", RegTok("A"), NoTok) }

CpLines == { Line("CP", DecTok(1), NoTok) }

NopLines == { Line("NOP", NoTok, NoTok) }

JmpLines ==
    { Line("JMP", LabelTok(l), NoTok) : l \in LabelNames }
    \cup { Line("JMP", CondTok(c), LabelTok("L")) : c \in {"Z", "NZ"} }

LabelLines ==
    { Line("LABEL", LabelTok(l), NoTok) : l \in LabelNames }
    \cup { Line("LABEL", LabelTok("L"), RestTok("LDA 1")) }

IsJump(ln) == ln.mn = "JMP"

IsLabel(ln) == ln.mn = "LABEL"

(***************************************************************************)
(* The assembler: main reads one line per step.                            *)
(***************************************************************************)
AsmStart ==
    /\ program = << >>
    /\ address = 0
    /\ labels = EmptyMap
    /\ waiting_labels = EmptyMap
    /\ phase = "reading"
    /\ lines = << >>

CanRead == phase = "reading" /\ Len(lines) < MaxLines

Consumed(ln) == Append(lines, [line |-> ln, at |-> Len(program)])

\* main for a line that is an instruction: parse_line, the increment of the
\* address counter at finish, and the push_backs.
AsmInstruction(ln, parsed, waiting) ==
    /\ CanRead
    /\ program' = Emit(program, parsed.instruction)
    /\ address' = U16(parsed.address + 1)
    /\ waiting_labels' = waiting
    /\ lines' = Consumed(ln)
    /\ UNCHANGED <<labels, phase>>
    /\ UNCHANGED vmVars

AsmLD == \E ln \in LdLines : AsmInstruction(ln, ParseLD(ln, address), waiting_labels)

AsmST == \E ln \in StLines : AsmInstruction(ln, ParseST(ln, address), waiting_labels)

AsmArith == \E ln \in ArithLines : AsmInstruction(ln, ParseArith(ln, address), waiting_labels)

AsmBitwise ==
    \E ln \in BitwiseLines : AsmInstruction(ln, ParseBitwise(ln, address), waiting_labels)

AsmCP == \E ln \in CpLines : AsmInstruction(ln, ParseCP(ln, address), waiting_labels)

AsmNOP == \E ln \in NopLines : AsmInstruction(ln, ParseNOP(ln, address), waiting_labels)

AsmJMP ==
    \E ln \in JmpLines :
        AsmInstruction(ln, ParseJMP(ln, address, labels, waiting_labels),
                       get_label_address(JumpLookupAddress(ln, address), JumpLabel(ln),
                                         labels, waiting_labels).waiting)

\* main for a label line: the label is bound and the waiting jump is patched;
\* nothing is pushed.  A patch that indexes past the end of program is
\* undefined behaviour: the write is lost or the run dies.
AsmLabel ==
    \E ln \in LabelLines :
        LET new_address == U16(LabelAddress(address))
            writes == PatchWrites(waiting_labels, ln.t1.s, new_address)
        IN /\ CanRead
           /\ address' = new_address
           /\ labels' = MapInsert(labels, ln.t1.s, new_address)
           /\ program' = PokeAll(program, writes)
           /\ lines' = Consumed(ln)
           /\ IF PatchOutOfRange(program, writes)
              THEN phase' \in {"reading", "crashed"}
              ELSE phase' = phase
           /\ UNCHANGED waiting_labels
           /\ UNCHANGED vmVars

\* main at the end of the input: the program is written to the output file.
AsmFinish ==
    /\ phase = "reading"
    /\ phase' = "done"
    /\ UNCHANGED <<program, address, labels, waiting_labels, lines>>
    /\ UNCHANGED vmVars

AsmNext ==
    \/ AsmLD \/ AsmST \/ AsmArith \/ AsmBitwise \/ AsmCP \/ AsmNOP
    \/ AsmJMP \/ AsmLabel \/ AsmFinish

(***************************************************************************)
(* vm.cpp: bitwise arithmetic on bytes.                                    *)
(***************************************************************************)
RECURSIVE BitAnd(_, _)
BitAnd(x, y) ==
    IF x = 0 \/ y = 0 THEN 0
    ELSE (x % 2) * (y % 2) + 2 * BitAnd(x \div 2, y \div 2)

RECURSIVE BitOr(_, _)
BitOr(x, y) ==
    IF x = 0 THEN y
    ELSE IF y = 0 THEN x
    ELSE (IF x % 2 = 1 \/ y % 2 = 1 THEN 1 ELSE 0) + 2 * BitOr(x \div 2, y \div 2)

RECURSIVE BitXor(_, _)
BitXor(x, y) ==
    IF x = 0 THEN y
    ELSE IF y = 0 THEN x
    ELSE ((x + y) % 2) + 2 * BitXor(x \div 2, y \div 2)

\* ~x of a byte, narrowed back to 8 bits.
BitNot(x) == 255 - x

\* A test that holds of every byte with any bit set.
isAnyBitSet(n, k) == n /= 0

\* isBitSet(n, k)
isBitSet(n, k) == (n \div (2 ^ k)) % 2 = 1

(***************************************************************************)
(* vm.cpp: the machine.                                                    *)
(***************************************************************************)
ROM_SIZE == 4096

RAM_SIZE == 4096

A_REG == 0

B_REG == 1

C_REG == 2

F_REG == 3

ZeroMask == 1

CarryMask == 2

\* rom[i]: load_program copies the program to the start of the zeroed rom.
Rom(i) == IF i < Len(rom) THEN rom[i + 1] ELSE 0

\* ram[i]: ram starts zeroed.
Ram(mem, i) == IF i \in DOMAIN mem THEN mem[i] ELSE 0

RamStore(mem, i, v) == [j \in DOMAIN mem \cup {i} |-> IF j = i THEN v ELSE mem[j]]

\* The operand bytes an opcode reads from rom.
FetchCount(opcode) ==
    CASE opcode \in {1, 2, 4, 5, 7, 8, 18, 24} -> 1
      [] opcode \in {3, 6, 9} \cup (10..17) \cup (19..23) -> 2
      [] OTHER -> 0

\* The opcodes whose operand bytes index the registers array, with the
\* operand positions (0: first byte, 1: second byte) used as an index.
RegisterOperands(opcode) ==
    CASE opcode \in {2, 5, 8, 13, 14, 18} -> {0}
      [] opcode \in {11, 12, 15, 16, 17} -> {0, 1}
      [] OTHER -> {}

\* What one call of execute leaves behind.  ret is -1 where execute returns
\* -1 and 0 where control leaves the switch by break and runs off the end
\* of the function without a return value.
Outcome(regs, mem, pc, ret) == [registers |-> regs, ram |-> mem, PC |-> pc, ret |-> ret]

\* The 16-bit operand of (rom[PC++] << 8) | rom[PC++]: the two increments are
\* unsequenced, so either operand of | may be the one that reads first.
Word(p, ord) ==
    IF ord = "lr" THEN Rom(p) * 256 + Rom(U16(p + 1))
    ELSE Rom(U16(p + 1)) * 256 + Rom(p)

\* Compare with the carry bit or-ed into the flags of the last comparison.
CompareAddingCarry(f, reg, value) ==
    IF reg = value THEN ZeroMask
    ELSE IF reg > value THEN 0
    ELSE BitOr(f, CarryMask)

\* Compare with the zero bit or-ed into the flags on equality.
CompareKeepingFlags(f, reg, value) ==
    LET f1 == IF reg = value THEN BitOr(f, ZeroMask) ELSE f
        f2 == IF reg /= value THEN BitAnd(f1, BitNot(ZeroMask)) ELSE f1
        f3 == IF reg > value THEN 0 ELSE f2
    IN IF reg < value THEN CarryMask ELSE f3

\* case 0x18
Compare(f, reg, value) ==
    LET f1 == IF reg = value THEN ZeroMask ELSE f
        f2 == IF reg /= value THEN BitAnd(f1, BitNot(ZeroMask)) ELSE f1
        f3 == IF reg > value THEN 0 ELSE f2
    IN IF reg < value THEN CarryMask ELSE f3

\* case 0x0B
AddRegister(x, y) == BitOr(x, y)

\* The immediate add as a bitwise OR.
AddValueAsOr(x, value) == BitOr(x, value)

\* case 0x0D
AddValue(x, value) == U8(x + value)

\* The uint8_t local value of the jump cases.
JumpValue(p, ord) == U8(Word(p, ord))

\* execute(opcode), entered with PC = p just past the opcode; the operand
\* bytes are inside rom and every register index is inside registers.
execute(opcode, p, ord) ==
    LET b1 == Rom(p)
        b2 == Rom(U16(p + 1))
        p1 == U16(p + 1)
        p2 == U16(p + 2)
        location == Word(p, ord)
        value == JumpValue(p, ord)
        f == registers[F_REG]
        Set(r, v) == [registers EXCEPT ![r] = v]
    IN CASE opcode = 1 -> Outcome(Set(A_REG, b1), ram, p1, 0)
         [] opcode = 2 -> Outcome(Set(A_REG, registers[b1]), ram, p1, 0)
         [] opcode = 3 -> Outcome(registers, RamStore(ram, location, registers[A_REG]), p2, 0)
         [] opcode = 4 -> Outcome(Set(B_REG, b1), ram, p1, 0)
         [] opcode = 5 -> Outcome(Set(B_REG, registers[b1]), ram, p1, 0)
         [] opcode = 6 -> Outcome(registers, RamStore(ram, location, registers[B_REG]), p2, 0)
         [] opcode = 7 -> Outcome(Set(C_REG, b1), ram, p1, 0)
         [] opcode = 8 -> Outcome(Set(C_REG, registers[b1]), ram, p1, 0)
         [] opcode = 9 -> Outcome(registers, RamStore(ram, location, registers[C_REG]), p2, 0)
         [] opcode = 10 -> Outcome(Set(A_REG, Ram(ram, location)), ram, p2, 0)
         [] opcode = 11 ->
              Outcome(Set(b1, AddRegister(registers[b1], registers[b2])), ram, p2, 0)
         [] opcode = 12 ->
              Outcome(Set(b1, BitAnd(registers[b1], BitNot(registers[b2]))), ram, p2, 0)
         [] opcode = 13 -> Outcome(Set(b1, AddValue(registers[b1], b2)), ram, p2, 0)
         [] opcode = 14 -> Outcome(Set(b1, BitAnd(registers[b1], BitNot(b2))), ram, p2, 0)
         [] opcode = 15 -> Outcome(Set(b1, BitAnd(registers[b1], registers[b2])), ram, p2, 0)
         [] opcode = 16 -> Outcome(Set(b1, BitOr(registers[b1], registers[b2])), ram, p2, 0)
         [] opcode = 17 -> Outcome(Set(b1, BitXor(registers[b1], registers[b2])), ram, p2, 0)
         [] opcode = 18 -> Outcome(Set(b1, BitNot(registers[b1])), ram, p1, 0)
         [] opcode = 19 -> Outcome(registers, ram, value, 0)
         [] opcode = 20 ->
              Outcome(registers, ram, IF BitAnd(f, ZeroMask) /= 0 THEN value ELSE p2, 0)
         [] opcode = 21 ->
              Outcome(registers, ram, IF BitAnd(f, ZeroMask) = 0 THEN U16(value - 1) ELSE p2, 0)
         [] opcode = 22 -> Outcome(registers, ram, IF isBitSet(f, 1) THEN value ELSE p2, 0)
         [] opcode = 23 -> Outcome(registers, ram, IF ~isBitSet(f, 1) THEN value ELSE p2, 0)
         [] opcode = 24 ->
              Outcome(Set(F_REG, Compare(f, registers[A_REG], b1)), ram, p1, 0)
         [] opcode = 0 -> Outcome(registers, ram, p, -1)
         [] opcode = 255 -> Outcome(registers, ram, p, 0)
         [] OTHER -> Outcome(registers, ram, p, -1)

\* The register a store opcode writes to ram.
StoreRegister(opcode) == CASE opcode = 3 -> A_REG [] opcode = 6 -> B_REG [] opcode = 9 -> C_REG

\* A store whose operand bytes are inside rom and whose location is past the
\* end of ram.
StoresOutsideRam(opcode, p, ord) ==
    /\ opcode \in {3, 6, 9}
    /\ p + 1 < ROM_SIZE
    /\ Word(p, ord) >= RAM_SIZE

\* ram[location] with location past the end of ram writes the byte v outside
\* ram: rom, the next allocation, is left as it is or has one of its loaded
\* cells overwritten.
StrayStore(r, v) == {r} \cup { [r EXCEPT ![i] = v] : i \in 1..Len(r) }

\* An access of execute outside rom, registers or ram.
OutOfBounds(opcode, p, ord) ==
    \/ FetchCount(opcode) > 0 /\ p + FetchCount(opcode) - 1 >= ROM_SIZE
    \/ \E k \in RegisterOperands(opcode) : Rom(U16(p + k)) > F_REG
    \/ opcode \in {3, 6, 9, 10} /\ Word(p, ord) >= RAM_SIZE

(***************************************************************************)
(* The programs the machine is run on: every sequence of at most MaxInstrs *)
(* of the encoded instructions below, and the scenario of the              *)
(* specification as the specification and as the assembler encode it.      *)
(***************************************************************************)
InstrPool ==
    { <<0>>, <<255>>, <<25>>,
      <<1, 5>>, <<2, 1>>, <<2, 3>>, <<3, 0, 0>>, <<3, 0, 1>>, <<3, 16, 0>>,
      <<4, 3>>, <<5, 0>>, <<6, 0, 1>>, <<7, 255>>, <<8, 0>>, <<9, 0, 2>>,
      <<10, 0, 1>>,
      <<11, 0, 1>>, <<11, 1, 1>>, <<12, 0, 1>>, <<13, 3, 128>>, <<13, 2, 128>>,
      <<14, 0, 1>>, <<15, 0, 1>>, <<16, 1, 2>>, <<17, 0, 2>>, <<18, 0>>, <<18, 4>>,
      <<19, 1, 0>>, <<20, 1, 0>>, <<21, 0, 0>>, <<21, 0, 5>>, <<22, 1, 6>>, <<23, 1, 0>>,
      <<24, 0>>, <<24, 5>> }

MaxInstrs == 2

RECURSIVE Programs(_)
Programs(n) ==
    IF n = 0 THEN { << >> }
    ELSE LET shorter == Programs(n - 1)
         IN shorter \cup { q \o i : q \in shorter, i \in InstrPool }

\* The scenario of the specification: its source, the bytes the specification
\* gives for it, and the bytes the assembler produces for it.
ScenarioSource ==
    << Line("LDA", DecTok(5), NoTok), Line("ADD", RegTok("A"), DecTok(3)),
       Line("STA", AddrTok(0), NoTok), Line("NOP", NoTok, NoTok) >>

ScenarioBytes == <<1, 5, 13, 0, 3, 3, 0, 0, 0>>

ScenarioAssembled == <<1, 5, 255, 13, 0, 3, 3, 0, 0, 0, 255, 255>>

\* A program that fills rom: AND A, A (0F 00 00) repeated up to the last
\* cell, which holds the opcode of LDA with no room left for its operand.
FullRomProgram ==
    [i \in 1..ROM_SIZE |-> IF i = ROM_SIZE THEN 1 ELSE IF i % 3 = 1 THEN 15 ELSE 0]

LoadablePrograms ==
    Programs(MaxInstrs) \cup {ScenarioBytes, ScenarioAssembled, FullRomProgram}

NoStep == [opcode |-> -1, pc |-> 0, registers |-> [r \in 0..3 |-> 0], ram |-> EmptyMap]

VmIdle ==
    /\ rom = << >>
    /\ ram = EmptyMap
    /\ registers = [r \in 0..3 |-> 0]
    /\ PC = 0
    /\ vmState = "idle"
    /\ last = NoStep

\* main: load_program and the entry into run.
VmLoad ==
    /\ vmState = "idle"
    /\ \E prog \in LoadablePrograms : rom' = prog
    /\ PC' = 0
    /\ vmState' = "running"
    /\ UNCHANGED <<ram, registers, last>>
    /\ UNCHANGED asmVars

\* A loop that no result of execute ends.
LoopNeverBreaks(result) == FALSE

\* run: the test of the result of execute that leaves the loop.
LoopBreaks(result) == result = -1

\* One turn of the loop of run for the given opcode: the fetch,
\* execute, and the test of its result.  Running off the end of execute is
\* undefined behaviour, as is an access out of bounds: the loop goes on or
\* the run is lost, and a store past the end of ram can land in rom.
VmStep(opcode) ==
    /\ vmState = "running"
    /\ PC < ROM_SIZE
    /\ Rom(PC) = opcode
    /\ \E ord \in {"lr", "rl"} :
        LET p == U16(PC + 1)
        IN /\ last' = [opcode |-> opcode, pc |-> PC, registers |-> registers, ram |-> ram]
           /\ IF OutOfBounds(opcode, p, ord)
              THEN /\ vmState' = "undefined"
                   /\ PC' = p
                   /\ UNCHANGED <<registers, ram>>
                   /\ IF StoresOutsideRam(opcode, p, ord)
                      THEN rom' \in StrayStore(rom, registers[StoreRegister(opcode)])
                      ELSE rom' = rom
              ELSE LET r == execute(opcode, p, ord)
                   IN /\ registers' = r.registers
                      /\ ram' = r.ram
                      /\ PC' = r.PC
                      /\ rom' = rom
                      /\ IF LoopBreaks(r.ret)
                         THEN vmState' = "stopped"
                         ELSE vmState' \in {"running", "undefined"}
    /\ UNCHANGED asmVars

VmLoadStore == \E opcode \in 1..10 : VmStep(opcode)

VmArithmetic == \E opcode \in 11..14 : VmStep(opcode)

VmBitwise == \E opcode \in 15..18 : VmStep(opcode)

VmJump == \E opcode \in 19..23 : VmStep(opcode)

VmCompare == \E opcode \in {24} : VmStep(opcode)

VmNop == \E opcode \in {0} : VmStep(opcode)

VmSkip == \E opcode \in {255} : VmStep(opcode)

VmUnknown == \E opcode \in 25..254 : VmStep(opcode)

\* run: the loop condition fails.
VmEnd ==
    /\ vmState = "running"
    /\ PC >= ROM_SIZE
    /\ vmState' = "ended"
    /\ UNCHANGED <<rom, ram, registers, PC, last>>
    /\ UNCHANGED asmVars

VmNext ==
    \/ VmLoad \/ VmLoadStore \/ VmArithmetic \/ VmBitwise \/ VmJump \/ VmCompare
    \/ VmNop \/ VmSkip \/ VmUnknown \/ VmEnd

\* The machine alone, on any loadable program.
VmInit ==
    /\ VmIdle
    /\ program = << >>
    /\ address = 0
    /\ labels = EmptyMap
    /\ waiting_labels = EmptyMap
    /\ phase = "done"
    /\ lines = << >>

SpecVM == VmInit /\ [][VmNext]_vars

AsmInit == AsmStart /\ VmIdle

SpecAsm == AsmInit /\ [][AsmNext]_vars

(***************************************************************************)
(* The toolchain: a source is assembled, the finished program is loaded    *)
(* into a fresh machine and run.  The sources are the jump-free programs   *)
(* of at most MaxLines lines that end in NOP, and three loops.             *)
(***************************************************************************)
JumpFreeLines == LdLines \cup StLines \cup ArithLines \cup BitwiseLines \cup CpLines

\* Jump-free instructions followed by one NOP, which is the last line.
IsJumpFreeSource(src) ==
    /\ Len(src) >= 1
    /\ src[Len(src)] \in NopLines
    /\ \A i \in 1..(Len(src) - 1) : src[i] \in JumpFreeLines

\* loop: LDA 1 / JMP loop, as the specification writes it.
LoopSource ==
    << Line("LABEL", LabelTok("L"), RestTok("LDA 1")), Line("JMP", LabelTok("L"), NoTok) >>

\* The same loop with the label on a line of its own.
LoopSourceSplit ==
    << Line("LABEL", LabelTok("L"), NoTok), Line("LDA", DecTok(1), NoTok),
       Line("JMP", LabelTok("L"), NoTok) >>

\* L: / JMP NZ, L
LoopSourceNZ ==
    << Line("LABEL", LabelTok("L"), NoTok), Line("JMP", CondTok("NZ"), LabelTok("L")) >>

LoopSources == {LoopSource, LoopSourceSplit, LoopSourceNZ}

IsToolchainSource(src) == IsJumpFreeSource(src) \/ src \in LoopSources

\* s is the start of a source the toolchain is run on.
IsSourcePrefix(s) ==
    \/ \A i \in 1..Len(s) : s[i] \in JumpFreeLines
    \/ IsJumpFreeSource(s)
    \/ \E src \in LoopSources : Len(s) <= Len(src) /\ s = SubSeq(src, 1, Len(s))

LinesRead(ls) == [i \in 1..Len(ls) |-> ls[i].line]

\* The assembler reads the next line of its source.
ToolchainRead ==
    /\ \/ AsmLD \/ AsmST \/ AsmArith \/ AsmBitwise \/ AsmCP \/ AsmNOP \/ AsmJMP \/ AsmLabel
    /\ IsSourcePrefix(LinesRead(lines'))

\* The assembler reaches the end of its source.
ToolchainFinish == IsToolchainSource(LinesRead(lines)) /\ AsmFinish

\* vm.cpp main: the file the assembler wrote is read and handed to
\* load_program, and run is entered.
ToolchainLoad ==
    /\ phase = "done"
    /\ vmState = "idle"
    /\ rom' = program
    /\ PC' = 0
    /\ vmState' = "running"
    /\ UNCHANGED <<ram, registers, last>>
    /\ UNCHANGED asmVars

ToolchainNext ==
    \/ ToolchainRead \/ ToolchainFinish \/ ToolchainLoad
    \/ VmLoadStore \/ VmArithmetic \/ VmBitwise \/ VmJump \/ VmCompare
    \/ VmNop \/ VmSkip \/ VmEnd

SpecToolchain == AsmInit /\ [][ToolchainNext]_vars

(***************************************************************************)
(* The assembler's input and output, as the claims speak of them.          *)
(***************************************************************************)
JumpsTo(l) == { j \in 1..Len(lines) : IsJump(lines[j].line) /\ JumpLabel(lines[j].line) = l }

Declarations(l) == { d \in 1..Len(lines) : IsLabel(lines[d].line) /\ lines[d].line.t1.s = l }

\* The instruction lines that follow line d.
InstructionsAfter(d) == { k \in (d + 1)..Len(lines) : ~IsLabel(lines[k].line) }

Min(S) == CHOOSE x \in S : \A y \in S : x <= y

\* The two bytes that follow the opcode of the instruction read as line j.
OperandBytes(j) == <<At(program, lines[j].at + 1), At(program, lines[j].at + 2)>>

BigEndian(n) == <<HighByte(n), LowByte(n)>>

\* The bytes the instruction read as line i added to program.
BytesOfLine(i) ==
    (IF i < Len(lines) THEN lines[i + 1].at ELSE Len(program)) - lines[i].at

\* Operand count per opcode, from the ISA table of the specification.
ISAOperandCount(op) ==
    CASE op = 0 -> 0
      [] op \in {1, 2, 4, 5, 7, 8, 18, 24} -> 1
      [] OTHER -> 2

SourceRead == [i \in 1..Len(lines) |-> lines[i].line]

\* C1: when the first declaration of a label L has just been read and two or
\* more earlier jumps reference L, the operand bytes of every one of those
\* jumps hold L's address from the label table, high byte first.
C1_AllWaitingJumpsPatched ==
    \A l \in LabelNames :
        LET n == Len(lines)
        IN (/\ phase /= "crashed"
            /\ Declarations(l) = {n}
            /\ Cardinality(JumpsTo(l)) >= 2)
           => \A j \in JumpsTo(l) : OperandBytes(j) = BigEndian(labels[l])

\* C2: at the end of assembly, a jump whose label is first declared on a later
\* line holds, high byte first, the offset in program of the first
\* instruction emitted after that label.
C2_ForwardJumpTargetsNextInstruction ==
    phase = "done" =>
        \A l \in LabelNames : \A j \in JumpsTo(l) :
            (/\ Declarations(l) /= {}
             /\ Min(Declarations(l)) > j
             /\ InstructionsAfter(Min(Declarations(l))) /= {})
            => OperandBytes(j)
                 = BigEndian(lines[Min(InstructionsAfter(Min(Declarations(l))))].at)

\* C3: assembly never finishes with a byte sequence in which a jump to a
\* label that was never declared still carries the placeholder.
C3_UndefinedLabelIsAnError ==
    ~(/\ phase = "done"
      /\ \E l \in LabelNames : \E j \in JumpsTo(l) :
            /\ Declarations(l) = {}
            /\ OperandBytes(j) = BigEndian(UnknownLabelAddress))

\* C4: after every line read, and at the end of assembly, the address counter
\* equals the number of bytes in program.
C4_AddressCounterTracksProgram ==
    phase /= "crashed" => address = Len(program)

\* C5: every instruction adds its opcode and exactly the operand bytes the ISA
\* table gives for it, and the scenario source assembles to its nine bytes.
C5_ExactOperandCount ==
    /\ \A i \in 1..Len(lines) :
          ~IsLabel(lines[i].line)
          => BytesOfLine(i) = 1 + ISAOperandCount(At(program, lines[i].at))
    /\ (phase = "done" /\ SourceRead = ScenarioSource) => program = ScenarioBytes

(***************************************************************************)
(* The machine's steps, as the claims speak of them.                       *)
(***************************************************************************)
\* Bit k of the byte n.
TestBit(n, k) == (n \div (2 ^ k)) % 2 = 1

\* r is the bitwise OR of the bytes x and y.
IsBitwiseOr(r, x, y) ==
    /\ r \in Byte
    /\ \A k \in 0..7 : TestBit(r, k) <=> (TestBit(x, k) \/ TestBit(y, k))

\* The operand bytes of the step last executed, as they lie in rom.
LastOperand1 == Rom(last.pc + 1)

LastOperand2 == Rom(last.pc + 2)

ProgramRegisters == {A_REG, B_REG, C_REG}

RunsScenario == rom \in {ScenarioBytes, ScenarioAssembled}

StoppedAtNop == vmState = "stopped" /\ last.opcode = 0

\* C6 as stated: ADD reg,reg and ADD reg,imm both leave the target register
\* equal to the bitwise OR of its old value and the operand, and the scenario
\* program ends with A = 7 and RAM[0] = 7.
C6_AddIsBitwiseOr ==
    /\ (last.opcode = 11 /\ LastOperand1 \in ProgramRegisters
                          /\ LastOperand2 \in ProgramRegisters)
       => IsBitwiseOr(registers[LastOperand1],
                      last.registers[LastOperand1], last.registers[LastOperand2])
    /\ (last.opcode = 13 /\ LastOperand1 \in ProgramRegisters)
       => IsBitwiseOr(registers[LastOperand1], last.registers[LastOperand1], LastOperand2)
    /\ (RunsScenario /\ StoppedAtNop) => (registers[A_REG] = 7 /\ Ram(ram, 0) = 7)

\* C6 as amended: ADD reg,reg leaves the target register equal to the bitwise
\* OR of its old value and the source register; ADD reg,imm leaves it equal to
\* the sum of its old value and the immediate modulo 256; a run of the
\* scenario program that reaches its NOP ends with A = 8 and RAM[0] = 8.
C6_AddRegisterIsOrAddValueIsSum ==
    /\ (last.opcode = 11 /\ LastOperand1 \in ProgramRegisters
                          /\ LastOperand2 \in ProgramRegisters)
       => IsBitwiseOr(registers[LastOperand1],
                      last.registers[LastOperand1], last.registers[LastOperand2])
    /\ (last.opcode = 13 /\ LastOperand1 \in ProgramRegisters)
       => registers[LastOperand1] = (last.registers[LastOperand1] + LastOperand2) % 256
    /\ (RunsScenario /\ StoppedAtNop) => (registers[A_REG] = 8 /\ Ram(ram, 0) = 8)

\* The scenario program has run to its NOP, its immediate add having given
\* a sum that differs from the bitwise OR.
C6_Witness ==
    /\ rom = ScenarioBytes
    /\ StoppedAtNop
    /\ registers[A_REG] = 8
    /\ ~IsBitwiseOr(registers[A_REG], 5, 3)

\* C7: a step that executes an opcode other than CP leaves F unchanged.
C7_OnlyCompareWritesF ==
    (last.opcode /= NoStep.opcode /\ last.opcode /= 24)
    => registers[F_REG] = last.registers[F_REG]

\* C8: an unconditional JMP, or a JMP Z, JMP C or JMP NC whose condition
\* holds, sets PC to the 16-bit value of its two operand bytes, high byte
\* first.
C8_JumpSetsPCToOperand ==
    (\/ last.opcode = 19
     \/ last.opcode = 20 /\ TestBit(last.registers[F_REG], 0)
     \/ last.opcode = 22 /\ TestBit(last.registers[F_REG], 1)
     \/ last.opcode = 23 /\ ~TestBit(last.registers[F_REG], 1))
    => PC = LastOperand1 * 256 + LastOperand2

\* C9: once an opcode that is not in the ISA table (0x19..0xFF) has been
\* fetched the loop has stopped: no later byte of rom is fetched.
C9_UnknownOpcodeStopsTheRun ==
    last.opcode \in 25..255 => vmState /= "running"

\* C10: after a CP v step with accumulator a, whatever F held before, the zero
\* bit is set iff v = a, the carry bit is set iff v > a, and both bits are
\* clear iff a > v.
C10_CompareSetsFlags ==
    last.opcode = 24 =>
        LET a == last.registers[A_REG]
            v == LastOperand1
            zero == TestBit(registers[F_REG], 0)
            carry == TestBit(registers[F_REG], 1)
        IN /\ zero <=> v = a
           /\ carry <=> v > a
           /\ (~zero /\ ~carry) <=> a > v

\* A CP of an operand equal to the accumulator, executed with the carry bit
\* left set by an earlier CP.
C10_Witness ==
    /\ last.opcode = 24
    /\ last.registers[F_REG] = CarryMask
    /\ LastOperand1 = last.registers[A_REG]
    /\ registers[F_REG] = ZeroMask

\* The flag condition of the conditional jump last executed, on the flags
\* it was executed with.
LastConditionHolds ==
    LET zero == TestBit(last.registers[F_REG], 0)
        carry == TestBit(last.registers[F_REG], 1)
    IN CASE last.opcode = 20 -> zero
         [] last.opcode = 21 -> ~zero
         [] last.opcode = 22 -> carry
         [] last.opcode = 23 -> ~carry
         [] OTHER -> FALSE

\* Every cell of ram holds what it held before the step last executed (a
\* cell that was never written holds 0 in both).
RamUnchangedByLast ==
    \A a \in DOMAIN ram \cup DOMAIN last.ram : Ram(ram, a) = Ram(last.ram, a)

\* C11: after a conditional jump (0x14..0x17) at rom address p whose flag
\* condition does not hold, PC = p + 3 and A, B, C, F and every ram cell are
\* what they were before the step.
C11_UntakenJumpFallsThrough ==
    (last.opcode \in 20..23 /\ ~LastConditionHolds)
    => /\ PC = last.pc + 3
       /\ registers = last.registers
       /\ RamUnchangedByLast

\* A JMP C executed with only the zero bit set has fallen through.
C11_Witness ==
    /\ last.opcode = 22
    /\ last.registers[F_REG] = ZeroMask
    /\ PC = last.pc + 3

(***************************************************************************)
(* The effect the specification gives each source instruction (sections    *)
(* 4.1, 4.5 and 8), applied to registers and ram directly.                 *)
(***************************************************************************)
SpecRegister(c) == CASE c = "A" -> 0 [] c = "B" -> 1 [] c = "C" -> 2

\* A numeric literal, decimal or 0x-prefixed, denotes its value.
SpecLiteral(tok) == tok.n % 256

SpecOperand(st, tok) ==
    IF tok.k = "reg" THEN st.registers[SpecRegister(tok.s)] ELSE SpecLiteral(tok)

SpecFlags(a, v) == IF v = a THEN 1 ELSE IF v > a THEN 2 ELSE 0

SpecEffect(st, ln) ==
    LET SetReg(r, v) == [st EXCEPT !.registers[r] = v]
        target == SpecRegister(ln.t1.s)
        x == st.registers[target]
    IN CASE ln.mn \in {"LDA", "LDB", "LDC"} ->
              SetReg(SpecRegister(Back(ln.mn)),
                     IF ln.t1.k = "addr" THEN Ram(st.ram, ln.t1.n)
                     ELSE SpecOperand(st, ln.t1))
         [] ln.mn \in {"STA", "STB", "STC"} ->
              [st EXCEPT !.ram = RamStore(st.ram, ln.t1.n,
                                          st.registers[SpecRegister(Back(ln.mn))])]
         [] ln.mn = "ADD" -> SetReg(target, BitOr(x, SpecOperand(st, ln.t2)))
         [] ln.mn = "SUB" -> SetReg(target, BitAnd(x, 255 - SpecOperand(st, ln.t2)))
         [] ln.mn = "AND" -> SetReg(target, BitAnd(x, SpecOperand(st, ln.t2)))
         [] ln.mn = "OR" -> SetReg(target, BitOr(x, SpecOperand(st, ln.t2)))
         [] ln.mn = "XOR" -> SetReg(target, BitXor(x, SpecOperand(st, ln.t2)))
         [] ln.mn = "NOT" -> SetReg(target, 255 - x)
         [] ln.mn = "CP" -> SetReg(3, SpecFlags(st.registers[0], SpecLiteral(ln.t1)))
         [] OTHER -> st

RECURSIVE SpecRun(_, _)
SpecRun(st, src) == IF src = << >> THEN st ELSE SpecRun(SpecEffect(st, Head(src)), Tail(src))

SpecZeroState == [registers |-> [r \in 0..3 |-> 0], ram |-> EmptyMap]

\* The machine has run the assembled source to its halt.
RanToHalt == phase = "done" /\ rom = program /\ vmState = "stopped" /\ last.opcode = 0

\* C12: when the assembled output of a jump-free source ending in NOP has
\* been loaded and run to the halt, A, B, C, F and every ram cell equal the
\* result of applying the specified effect of each source instruction once,
\* in source order, to the zero state.
C12_JumpFreeRunMatchesSource ==
    (IsJumpFreeSource(SourceRead) /\ RanToHalt)
    => LET expected == SpecRun(SpecZeroState, SourceRead)
       IN /\ registers = expected.registers
          /\ \A a \in 0..(RAM_SIZE - 1) : Ram(ram, a) = Ram(expected.ram, a)

(***************************************************************************)
(* Steps of the assembler, as the claims speak of them.                    *)
(***************************************************************************)
\* The step reads one more line of the source.
ReadsLine == Len(lines') = Len(lines) + 1

\* The line the step reads.
NewLine == lines'[Len(lines')]

\* C13: a jump to a label whose first declaration is on an earlier line holds,
\* high byte first, the offset in program of the first instruction emitted
\* after that declaration, and when no jump precedes the declaration the
\* label has no entry among the waiting labels.
C13_BackwardJumpTargetsNextInstruction ==
    \A l \in LabelNames : \A j \in JumpsTo(l) :
        (/\ phase /= "crashed"
         /\ Declarations(l) /= {}
         /\ Min(Declarations(l)) < j)
        => /\ OperandBytes(j)
                = BigEndian(lines[Min(InstructionsAfter(Min(Declarations(l))))].at)
           /\ (\A k \in JumpsTo(l) : Min(Declarations(l)) < k)
                => l \notin DOMAIN waiting_labels

\* C14: a label declaration read while the address counter is 0 binds the
\* label to 0 and leaves the counter at 0; an instruction read while the
\* counter is 0 is placed at offset 0 of program; a jump read while its label
\* is bound to 0 is emitted with the operand bytes 00 00.
C14_LabelAtZeroTakesNoSlot ==
    [][ReadsLine =>
          /\ (IsLabel(NewLine.line) /\ address = 0)
             => (labels'[NewLine.line.t1.s] = 0 /\ address' = 0)
          /\ (~IsLabel(NewLine.line) /\ address = 0) => NewLine.at = 0
          /\ (/\ IsJump(NewLine.line)
              /\ JumpLabel(NewLine.line) \in DOMAIN labels
              /\ labels[JumpLabel(NewLine.line)] = 0)
             => <<At(program', NewLine.at + 1), At(program', NewLine.at + 2)>> = <<0, 0>>
       ]_vars

\* A label declared first, the instruction after it at offset 0, and a later
\* jump to the label carrying 00 00.
C14_Witness ==
    /\ Len(lines) >= 3
    /\ IsLabel(lines[1].line)
    /\ labels[lines[1].line.t1.s] = 0
    /\ ~IsLabel(lines[2].line)
    /\ lines[2].at = 0
    /\ \E j \in JumpsTo(lines[1].line.t1.s) : j > 2 /\ OperandBytes(j) = <<0, 0>>

\* C15: once a label has been declared a second time the assembler has
\* stopped: it neither reads on nor finishes with a program.
C15_DuplicateLabelAborts ==
    \A l \in LabelNames :
        Cardinality(Declarations(l)) >= 2 => phase \notin {"reading", "done"}

(***************************************************************************)
(* The ends of a run, as the claims speak of them.  execute returns -1 for *)
(* NOP and for an opcode it does not know, and run leaves its loop on -1:  *)
(* the first is the halt, the second the only fault the machine has.       *)
(***************************************************************************)
Halted == vmState = "stopped" /\ last.opcode = 0

Faulted == vmState = "stopped" /\ last.opcode /= 0

\* C16: a step of the running machine that fetches opcode 0x00 ends in
\* Halted, and from Halted or Faulted no step fetches a byte or changes PC,
\* A, B, C, F or ram.
C16_HaltedAndFaultedAreTerminal ==
    [][/\ (vmState = "running" /\ PC < ROM_SIZE /\ Rom(PC) = 0) => Halted'
       /\ (Halted \/ Faulted) => UNCHANGED <<PC, registers, ram, rom, last, vmState>>
      ]_vars

\* The machine has halted on a NOP after an instruction that wrote ram.
C16_Witness ==
    /\ Halted
    /\ last.pc > 0
    /\ \E a \in DOMAIN ram : ram[a] /= 0

\* The assembler has finished the loop of the specification, written with
\* the label on the line of LDA 1 or on a line of its own.
AssembledLoop == phase = "done" /\ SourceRead \in {LoopSource, LoopSourceSplit}

\* C17: once loop: LDA 1 / JMP loop is assembled, the operand of the JMP (the
\* last line) is 0 and the bytes at offset 0 of program are LDA 1 (01 01);
\* the machine that runs the result is never in a state other than running
\* and its PC stays below the length of rom.
C17_LoopRunsForever ==
    AssembledLoop =>
        /\ OperandBytes(Len(lines)) = <<0, 0>>
        /\ <<At(program, 0), At(program, 1)>> = <<1, 1>>
        /\ vmState \in {"idle", "running"}
        /\ PC < ROM_SIZE

\* The 16-bit address operand of the instruction at rom address p, high
\* byte first.
AddressOperand(p) == Rom(p + 1) * 256 + Rom(p + 2)

\* The running machine has just executed a load-immediate and is about to
\* fetch the store of the same register (0x01/0x03, 0x04/0x06, 0x07/0x09).
LoadedThenStores ==
    /\ vmState = "running"
    /\ last.opcode \in {1, 4, 7}
    /\ PC = last.pc + 2
    /\ Rom(PC) = last.opcode + 2

C19_OutOfBoundsAccessFaults ==
    (last.opcode \in {3, 6, 9, 10} /\ AddressOperand(last.pc) >= RAM_SIZE)
    => /\ Faulted
       /\ registers = last.registers
       /\ RamUnchangedByLast

\* The offsets of the two operand bytes of the jumps read so far that
\* reference the label l.
JumpOperandOffsets(l) ==
    UNION { {lines[j].at + 1, lines[j].at + 2} : j \in JumpsTo(l) }

\* C20: a step of the assembler never shortens program, and a byte already in
\* program changes only when the step reads the declaration of a label and
\* the byte is one of the two operand bytes of a jump to that label: the
\* opcode of every jump, conditional or not, and every byte of every other
\* instruction keep their values.
C20_OnlyJumpOperandsArePatched ==
    [][/\ Len(program') >= Len(program)
       /\ \A i \in 0..(Len(program) - 1) :
             At(program', i) /= At(program, i)
             => /\ ReadsLine
                /\ IsLabel(NewLine.line)
                /\ i \in JumpOperandOffsets(NewLine.line.t1.s)
      ]_vars

\* C21: once a label has been declared, no later step changes its address in
\* the label table or the operand bytes of a jump to it that has been read,
\* a second declaration of the label included.
C21_FirstDefinitionIsAuthoritative ==
    [][\A l \in LabelNames :
          Declarations(l) /= {}
          => /\ labels'[l] = labels[l]
             /\ \A j \in JumpsTo(l) :
                   <<At(program', lines[j].at + 1), At(program', lines[j].at + 2)>>
                     = OperandBytes(j)
      ]_vars

\* C22: a taken JMP NZ leaves PC at its 16-bit operand minus 1 modulo 2^16;
\* a taken JMP Z, JMP C or JMP NC leaves PC at its 16-bit operand.
C22_OnlyJumpNZIsOffByOne ==
    (last.opcode \in 20..23 /\ LastConditionHolds)
    => PC = IF last.opcode = 21
            THEN (AddressOperand(last.pc) - 1) % 65536
            ELSE AddressOperand(last.pc)

\* C23: in a run of an assembled program, after a taken JMP NZ read as a
\* line whose label is first declared on an earlier line, PC is the offset
\* in program of the first instruction emitted after that declaration.
C23_TakenBackwardJumpNZLandsOnInstruction ==
    (/\ phase = "done"
     /\ rom = program
     /\ last.opcode = 21
     /\ ~TestBit(last.registers[F_REG], 0))
    => \A l \in LabelNames : \A j \in JumpsTo(l) :
          (/\ lines[j].at = last.pc
           /\ Declarations(l) /= {}
           /\ Min(Declarations(l)) < j)
          => PC = lines[Min(InstructionsAfter(Min(Declarations(l))))].at

\* C24: every step fetches its opcode and each of its operand bytes at an
\* index of rom below 4096.
C24_RomReadsBelowRomSize ==
    last.opcode /= NoStep.opcode
    => /\ last.pc < ROM_SIZE
       /\ last.pc + FetchCount(last.opcode) < ROM_SIZE

\* The ram cells a step changes.
RamCellsChanged == { c \in 0..(RAM_SIZE - 1) : Ram(ram', c) /= Ram(ram, c) }

\* C25: a step of the loaded machine changes at most one ram cell, changes
\* one only when the opcode it fetches is a store (0x03, 0x06, 0x09), and
\* leaves rom as load_program filled it.
C25_OneRamCellAndRomFixed ==
    [][vmState /= "idle"
       => /\ Cardinality(RamCellsChanged) <= 1
          /\ RamCellsChanged /= {} => Rom(PC) \in {3, 6, 9}
          /\ rom' = rom
      ]_vars

\* F holds 0b00, 0b01 or 0b10.
FlagsWellFormed == registers[F_REG] \in {0, ZeroMask, CarryMask}

\* Every operand byte that the instruction at PC uses as a register index is
\* 0, 1 or 2.
FetchesProgramRegisters ==
    \A k \in RegisterOperands(Rom(PC)) : Rom(PC + 1 + k) \in ProgramRegisters

\* C26: F is 0b00, 0b01 or 0b10 when the program is loaded, and a step whose
\* register operand bytes are all 0, 1 or 2 takes a state in which F is one
\* of the three to another such state; hence F is one of the three in every
\* state of a run whose executed register operands are all 0, 1 or 2.
C26_FlagsStayWellFormed ==
    [][/\ vmState = "idle" => FlagsWellFormed
       /\ (FlagsWellFormed /\ FetchesProgramRegisters) => FlagsWellFormed'
      ]_vars

\* A CP that found the accumulator smaller, executed with the zero bit left
\* set by an earlier CP, has left the carry bit alone in F.
C26_Witness ==
    /\ last.opcode = 24
    /\ last.registers[F_REG] = ZeroMask
    /\ registers[F_REG] = CarryMask

====
